---- MODULE Spec2Model ----
(***************************************************************************)
(* sarifdump.py: GccStyleDumper renders the results of SARIF documents as  *)
(* GCC-style diagnostic text.                                              *)
(*                                                                         *)
(* A Python dict is a function from its keys (strings) to its values, so   *)
(* that `'k' in d` is  "k" \in DOMAIN d ; a Python list is a sequence.     *)
(* Text is a sequence of atoms: the literal pieces of the format strings,  *)
(* the decimal digits produced by %i, the "\n" written by writeln, and the *)
(* document's own strings (one atom each).  A file object is the sequence  *)
(* of the atoms written to it so far.                                      *)
(***************************************************************************)
EXTENDS Integers, Sequences, FiniteSets, TLC

VARIABLES
    jobs,     \* the renderings to perform, in order: [sarif_file, base_path, dst_file]
    out,      \* the file objects: sink -> text written so far
    dumper,   \* the current GccStyleDumper instance (None before the first)
    pc,       \* position of the control flow
    raised_at,\* the position at which an exception was raised ("" while none was)
    di,       \* main's for loop: number of documents started
    ri,       \* dump_sarif_file's for loop: number of results started
    ti,       \* the taxa for loop: number of references handled
    si,       \* write_thread_flow's for loop: number of steps handled
    rmark,    \* length of the sink when the current result was started
    fmark     \* length of the sink when the current code flow was started

vars == <<jobs, out, dumper, pc, raised_at, di, ri, ti, si, rmark, fmark>>

(***************************************************************************)
(* Python values                                                           *)
(***************************************************************************)
None == [none |-> TRUE]

NoKey == <<>>

Has(d, k) == k \in DOMAIN d

Opt(k, S) == {NoKey} \cup {k :> v : v \in S}

Sinks == {"stdout", "buffer"}

(***************************************************************************)
(* '%i' % n, for n >= 0: the decimal digits of n.                          *)
(***************************************************************************)
DigitChars == <<"0", "1", "2", "3", "4", "5", "6", "7", "8", "9">>

RECURSIVE IntStr(_)
IntStr(n) ==
    IF n < 10 THEN <<DigitChars[n + 1]>>
    ELSE IntStr(n \div 10) \o <<DigitChars[(n % 10) + 1]>>

(***************************************************************************)
(* str(Path(base_path, filename)).  A path string is a sequence of atoms   *)
(* in which "/" is the separator.  pathlib drops empty and "." components, *)
(* and an absolute later segment discards the earlier ones.                *)
(***************************************************************************)
IsAbs(s) == s # <<>> /\ s[1] = "/"

RECURSIVE PathNames(_)
PathNames(s) ==
    IF s = <<>> THEN <<>>
    ELSE IF s[1] \in {"/", "."} THEN PathNames(Tail(s))
    ELSE <<s[1]>> \o PathNames(Tail(s))

RECURSIVE JoinNames(_)
JoinNames(names) ==
    IF Len(names) <= 1 THEN names
    ELSE <<names[1], "/">> \o JoinNames(Tail(names))

PathStr(base_path, filename) ==
    LET abs   == IF IsAbs(filename) THEN TRUE ELSE IsAbs(base_path)
        names == IF IsAbs(filename) THEN PathNames(filename)
                 ELSE PathNames(base_path) \o PathNames(filename)
    IN  IF names = <<>> THEN (IF abs THEN <<"/">> ELSE <<".">>)
        ELSE (IF abs THEN <<"/">> ELSE <<>>) \o JoinNames(names)

(***************************************************************************)
(* The writers.  Each returns what the call wrote (text), the value of     *)
(* self.last_logical_location after it (last), and whether it returned     *)
(* normally (ok) or raised KeyError/IndexError part-way.                   *)
(***************************************************************************)
W(text, last, ok) == [text |-> text, last |-> last, ok |-> ok]

Header(logicalLocation) ==
    <<"In function '", logicalLocation.fullyQualifiedName, "':", "\n">>

\* a slip: last_logical_location is assigned only inside the `if kind == 'function'`
write_logical_location_function_only(logicalLocation, last) ==
    IF logicalLocation = last THEN W(<<>>, last, TRUE)
    ELSE IF logicalLocation.kind = "function"
         THEN W(Header(logicalLocation), logicalLocation, TRUE)
         ELSE W(<<>>, last, TRUE)

\* a slip: the comparison looks at the function's name, not at the whole value
write_logical_location_by_name(logicalLocation, last) ==
    IF last # None /\ logicalLocation.fullyQualifiedName = last.fullyQualifiedName
    THEN W(<<>>, last, TRUE)
    ELSE IF logicalLocation.kind = "function"
         THEN W(Header(logicalLocation), logicalLocation, TRUE)
         ELSE W(<<>>, logicalLocation, TRUE)

write_logical_location(logicalLocation, last) ==
    IF logicalLocation = last THEN W(<<>>, last, TRUE)
    ELSE IF ~Has(logicalLocation, "kind") THEN W(<<>>, logicalLocation, FALSE)
    ELSE IF logicalLocation.kind = "function"
         THEN IF Has(logicalLocation, "fullyQualifiedName")
              THEN W(Header(logicalLocation), logicalLocation, TRUE)
              ELSE W(<<>>, logicalLocation, FALSE)
         ELSE W(<<>>, logicalLocation, TRUE)

\* a slip: the column is written whether present or not (0 when absent)
write_physical_location_always_column(physicalLocation, base_path) ==
    LET filename == physicalLocation.artifactLocation.uri
        region   == physicalLocation.region
    IN  IF ~Has(region, "startLine") THEN [text |-> <<>>, ok |-> FALSE]
        ELSE [text |-> PathStr(base_path, filename) \o <<":">>
                          \o IntStr(region.startLine) \o <<":">>
                          \o IntStr(IF Has(region, "startColumn")
                                    THEN region.startColumn ELSE 0) \o <<":">>
                          \o <<" ">>,
              ok |-> TRUE]

write_physical_location(physicalLocation, base_path) ==
    IF \/ ~Has(physicalLocation, "artifactLocation")
       \/ ~Has(physicalLocation.artifactLocation, "uri")
       \/ ~Has(physicalLocation, "region")
       \/ ~Has(physicalLocation.region, "startLine")
    THEN [text |-> <<>>, ok |-> FALSE]
    ELSE LET filename == physicalLocation.artifactLocation.uri
             region   == physicalLocation.region
         IN  [text |-> PathStr(base_path, filename) \o <<":">>
                          \o IntStr(region.startLine) \o <<":">>
                          \o (IF Has(region, "startColumn")
                              THEN IntStr(region.startColumn) \o <<":">>
                              ELSE <<>>)
                          \o <<" ">>,
              ok |-> TRUE]

\* a slip: a location without logical locations forgets the last one
write_location_forgets(location, last, base_path) ==
    LET l == IF Has(location, "logicalLocations") /\ location.logicalLocations # <<>>
             THEN write_logical_location(location.logicalLocations[1], last)
             ELSE W(<<>>, None, TRUE)
    IN  IF ~l.ok THEN l
        ELSE IF Has(location, "physicalLocation")
             THEN LET p == write_physical_location(location.physicalLocation, base_path)
                  IN  W(l.text \o p.text, l.last, p.ok)
             ELSE l

write_location(location, last, base_path) ==
    LET l == IF Has(location, "logicalLocations") /\ location.logicalLocations # <<>>
             THEN write_logical_location(location.logicalLocations[1], last)
             ELSE W(<<>>, last, TRUE)
    IN  IF ~l.ok THEN l
        ELSE IF Has(location, "physicalLocation")
             THEN LET p == write_physical_location(location.physicalLocation, base_path)
                  IN  W(l.text \o p.text, l.last, p.ok)
             ELSE l

\* a slip: every reference that names a tool component is printed as a CWE
write_reporting_descriptor_reference_any(rdr) ==
    IF Has(rdr, "toolComponent")
    THEN IF Has(rdr, "id")
         THEN [text |-> <<" [CWE-", rdr.id, "]">>, ok |-> TRUE]
         ELSE [text |-> <<>>, ok |-> FALSE]
    ELSE [text |-> <<>>, ok |-> TRUE]

write_reporting_descriptor_reference(rdr) ==
    IF Has(rdr, "toolComponent")
    THEN IF ~Has(rdr.toolComponent, "name") THEN [text |-> <<>>, ok |-> FALSE]
         ELSE IF rdr.toolComponent.name = "cwe"
              THEN IF Has(rdr, "id")
                   THEN [text |-> <<" [CWE-", rdr.id, "]">>, ok |-> TRUE]
                   ELSE [text |-> <<>>, ok |-> FALSE]
              ELSE [text |-> <<>>, ok |-> TRUE]
    ELSE [text |-> <<>>, ok |-> TRUE]

\* a slip: the steps are numbered from 0
write_thread_flow_location_from_zero(idx, threadFlowLocation, last, base_path) ==
    LET location == threadFlowLocation.location
        l        == write_location(location, last, base_path)
        number   == <<"(">> \o IntStr(idx) \o <<") ">>
    IN  IF ~l.ok THEN l
        ELSE IF Has(location, "message") /\ Has(location.message, "text")
             THEN W(l.text \o number \o <<location.message.text, "\n">>, l.last, TRUE)
             ELSE W(l.text \o number, l.last, FALSE)

write_thread_flow_location(idx, threadFlowLocation, last, base_path) ==
    IF ~Has(threadFlowLocation, "location") THEN W(<<>>, last, FALSE)
    ELSE LET location == threadFlowLocation.location
             l        == write_location(location, last, base_path)
             number   == <<"(">> \o IntStr(idx + 1) \o <<") ">>
         IN  IF ~l.ok THEN l
             ELSE IF Has(location, "message") /\ Has(location.message, "text")
                  THEN W(l.text \o number \o <<location.message.text, "\n">>, l.last, TRUE)
                  ELSE W(l.text \o number, l.last, FALSE)

\* a slip: last_logical_location lives in the class (or the module), so a new
\* instance finds the value the previous one left
GccStyleDumper_shared(dst_file, base_path) ==
    [dst_file |-> dst_file, base_path |-> base_path,
     last_logical_location |->
        IF dumper = None THEN None ELSE dumper.last_logical_location]

GccStyleDumper(dst_file, base_path) ==
    [dst_file |-> dst_file, base_path |-> base_path, last_logical_location |-> None]

(***************************************************************************)
(* The control flow                                                        *)
(***************************************************************************)
sarif_file == jobs[di].sarif_file

result == sarif_file[ri]

write(text) == out' = [out EXCEPT ![dumper.dst_file] = @ \o text]

written == Len(out[dumper.dst_file])

HasSteps(r) ==
    /\ r.codeFlows # <<>>
    /\ Has(r.codeFlows[1], "threadFlows")
    /\ r.codeFlows[1].threadFlows # <<>>
    /\ Has(r.codeFlows[1].threadFlows[1], "locations")

Steps(r) == r.codeFlows[1].threadFlows[1].locations

\* a slip: the dumper is constructed once, before the loop
MainNext_one_dumper ==
    /\ pc = "main"
    /\ di < Len(jobs)
    /\ di' = di + 1
    /\ dumper' = IF dumper = None
                 THEN GccStyleDumper(jobs[di + 1].dst_file, jobs[di + 1].base_path)
                 ELSE dumper
    /\ ri' = 0
    /\ pc' = "results"
    /\ UNCHANGED <<raised_at, jobs, out, ti, si, rmark, fmark>>

\* main, lines 156-160: the next document gets a new dumper
MainNext ==
    /\ pc = "main"
    /\ di < Len(jobs)
    /\ di' = di + 1
    /\ dumper' = GccStyleDumper(jobs[di + 1].dst_file, jobs[di + 1].base_path)
    /\ ri' = 0
    /\ pc' = "results"
    /\ UNCHANGED <<raised_at, jobs, out, ti, si, rmark, fmark>>

\* main, line 156: no document is left
MainExit ==
    /\ pc = "main"
    /\ di = Len(jobs)
    /\ pc' = "exit"
    /\ UNCHANGED <<raised_at, jobs, out, dumper, di, ri, ti, si, rmark, fmark>>

\* dump_sarif_file, lines 40-41: the next result
NextResult ==
    /\ pc = "results"
    /\ ri < Len(sarif_file)
    /\ ri' = ri + 1
    /\ ti' = 0
    /\ si' = 0
    /\ rmark' = written
    /\ fmark' = written
    /\ pc' = "locations"
    /\ UNCHANGED <<raised_at, jobs, out, dumper, di>>

\* dump_sarif_file, line 40: no result is left
FileDone ==
    /\ pc = "results"
    /\ ri = Len(sarif_file)
    /\ pc' = "main"
    /\ UNCHANGED <<raised_at, jobs, out, dumper, di, ri, ti, si, rmark, fmark>>

\* dump_sarif_result, lines 48-50
WriteLocations ==
    /\ pc = "locations"
    /\ IF ~Has(result, "locations")
       THEN /\ pc' = "level"
            /\ UNCHANGED <<out, dumper>>
       ELSE IF result.locations = <<>>
       THEN /\ pc' = "raised"
            /\ UNCHANGED <<out, dumper>>
       ELSE LET w == write_location(result.locations[1],
                                    dumper.last_logical_location, dumper.base_path)
            IN  /\ write(w.text)
                /\ dumper' = [dumper EXCEPT !.last_logical_location = w.last]
                /\ pc' = IF w.ok THEN "level" ELSE "raised"
    /\ raised_at' = IF pc' = "raised" THEN pc ELSE raised_at
    /\ UNCHANGED <<jobs, di, ri, ti, si, rmark, fmark>>

\* dump_sarif_result, lines 53-54
WriteLevel ==
    /\ pc = "level"
    /\ IF Has(result, "level")
       THEN write(<<result.level, ": ">>)
       ELSE UNCHANGED out
    /\ pc' = "message"
    /\ UNCHANGED <<raised_at, jobs, dumper, di, ri, ti, si, rmark, fmark>>

\* a slip: a missing message text is read as the empty string
WriteMessage_lenient ==
    /\ pc = "message"
    /\ IF Has(result, "message") /\ Has(result.message, "text")
       THEN write(<<result.message.text>>)
       ELSE UNCHANGED out
    /\ pc' = "taxa"
    /\ UNCHANGED <<raised_at, jobs, dumper, di, ri, ti, si, rmark, fmark>>

\* dump_sarif_result, line 57
WriteMessage ==
    /\ pc = "message"
    /\ IF Has(result, "message") /\ Has(result.message, "text")
       THEN /\ write(<<result.message.text>>)
            /\ pc' = "taxa"
       ELSE /\ pc' = "raised"
            /\ UNCHANGED out
    /\ raised_at' = IF pc' = "raised" THEN pc ELSE raised_at
    /\ UNCHANGED <<jobs, dumper, di, ri, ti, si, rmark, fmark>>

\* dump_sarif_result, lines 60-62: one iteration of the loop
WriteTaxon ==
    /\ pc = "taxa"
    /\ Has(result, "taxa")
    /\ ti < Len(result.taxa)
    /\ LET w == write_reporting_descriptor_reference(result.taxa[ti + 1])
       IN  /\ write(w.text)
           /\ pc' = IF w.ok THEN "taxa" ELSE "raised"
    /\ ti' = ti + 1
    /\ raised_at' = IF pc' = "raised" THEN pc ELSE raised_at
    /\ UNCHANGED <<jobs, dumper, di, ri, si, rmark, fmark>>

\* dump_sarif_result, lines 60-61: no taxa, or none left
TaxaDone ==
    /\ pc = "taxa"
    /\ Has(result, "taxa") => ti = Len(result.taxa)
    /\ pc' = "ruleId"
    /\ UNCHANGED <<raised_at, jobs, out, dumper, di, ri, ti, si, rmark, fmark>>

\* a slip: the line is ended before the rule id is written
WriteRuleId_after_newline ==
    /\ pc = "ruleId"
    /\ write(<<"\n">>
             \o (IF Has(result, "ruleId") THEN <<" [", result.ruleId, "]">> ELSE <<>>))
    /\ pc' = "codeFlows"
    /\ UNCHANGED <<raised_at, jobs, dumper, di, ri, ti, si, rmark, fmark>>

\* dump_sarif_result, lines 65-67
WriteRuleId ==
    /\ pc = "ruleId"
    /\ write((IF Has(result, "ruleId") THEN <<" [", result.ruleId, "]">> ELSE <<>>)
             \o <<"\n">>)
    /\ pc' = "codeFlows"
    /\ UNCHANGED <<raised_at, jobs, dumper, di, ri, ti, si, rmark, fmark>>

\* dump_sarif_result, lines 70-71; write_code_flow, line 124; write_thread_flow, line 130
WriteCodeFlow ==
    /\ pc = "codeFlows"
    /\ pc' = IF ~Has(result, "codeFlows") THEN "results"
             ELSE IF HasSteps(result) THEN "steps" ELSE "raised"
    /\ fmark' = written
    /\ raised_at' = IF pc' = "raised" THEN pc ELSE raised_at
    /\ UNCHANGED <<jobs, out, dumper, di, ri, ti, si, rmark>>

\* write_thread_flow, lines 130-131: one iteration of the loop
WriteStep ==
    /\ pc = "steps"
    /\ si < Len(Steps(result))
    /\ LET w == write_thread_flow_location(si, Steps(result)[si + 1],
                                           dumper.last_logical_location, dumper.base_path)
       IN  /\ write(w.text)
           /\ dumper' = [dumper EXCEPT !.last_logical_location = w.last]
           /\ pc' = IF w.ok THEN "steps" ELSE "raised"
    /\ si' = si + 1
    /\ raised_at' = IF pc' = "raised" THEN pc ELSE raised_at
    /\ UNCHANGED <<jobs, di, ri, ti, rmark, fmark>>

\* write_thread_flow, line 130: no step is left
StepsDone ==
    /\ pc = "steps"
    /\ si = Len(Steps(result))
    /\ pc' = "results"
    /\ UNCHANGED <<raised_at, jobs, out, dumper, di, ri, ti, si, rmark, fmark>>

Next ==
    \/ MainNext
    \/ MainExit
    \/ NextResult
    \/ FileDone
    \/ WriteLocations
    \/ WriteLevel
    \/ WriteMessage
    \/ WriteTaxon
    \/ TaxaDone
    \/ WriteRuleId
    \/ WriteCodeFlow
    \/ WriteStep
    \/ StepsDone

(***************************************************************************)
(* The documents                                                           *)
(***************************************************************************)
SeqsUpTo(S, n) == UNION {[1..k -> S] : k \in 0..n}

F == [kind |-> "function", fullyQualifiedName |-> "f"]

G == [kind |-> "function", fullyQualifiedName |-> "g"]

\* the same name as F, another kind
NS == [kind |-> "namespace", fullyQualifiedName |-> "f"]

\* the same kind and name as F, one more property
F2 == [kind |-> "function", fullyQualifiedName |-> "f", decoratedName |-> "_Z1fv"]

InitWith(J) ==
    /\ jobs \in J
    /\ out = [s \in Sinks |-> <<>>]
    /\ dumper = None
    /\ pc = "main"
    /\ raised_at = ""
    /\ di = 0
    /\ ri = 0
    /\ ti = 0
    /\ si = 0
    /\ rmark = 0
    /\ fmark = 0

Text(t) == [text |-> t]

Flow(steps) == [codeFlows |-> <<[threadFlows |-> <<[locations |-> steps]>>]>>]

Step(location, t) == [location |-> location @@ [message |-> Text(t)]]

Cwe(id) == [toolComponent |-> [name |-> "cwe"], id |-> id]

(***************************************************************************)
(* Spec: main renders one document of up to MaxResults results whose       *)
(* first locations and trace steps move between logical locations.         *)
(***************************************************************************)
MaxResults == 2

SeqLocations ==
    {NoKey, [logicalLocations |-> <<>>]}
        \cup {[logicalLocations |-> <<l>>] : l \in {F, G, NS, F2}}

SeqFlows ==
    {NoKey,
     Flow(<<Step([logicalLocations |-> <<G>>], "e1")>>),
     Flow(<<Step(NoKey, "e1"), Step([logicalLocations |-> <<F>>], "e2")>>)}

SeqRest ==
    {[message |-> Text("m")],
     [level |-> "warning", message |-> Text("m"), taxa |-> <<Cwe("120")>>,
      ruleId |-> "rule"]}

SeqResults ==
    {l @@ c @@ r : l \in Opt("locations", {<<x>> : x \in SeqLocations}),
                   c \in SeqFlows, r \in SeqRest}

SeqJobs ==
    {<<[sarif_file |-> d, base_path |-> <<"out">>, dst_file |-> "stdout"]>> :
        d \in SeqsUpTo(SeqResults, MaxResults)}

Init == InitWith(SeqJobs)

Spec == Init /\ [][Next]_vars

(***************************************************************************)
(* SpecFmt: main renders one document of one result; the result's fields   *)
(* are present or absent in every combination.                             *)
(***************************************************************************)
MaxTaxa == 2

FmtUris == {<<"foo.c">>, <<"/", "usr", "/", "a.h">>, <<".", "/", "src", "/", "foo.c">>}

FmtRegions ==
    {[startLine |-> 42, startColumn |-> 5], [startLine |-> 1207], [startColumn |-> 5]}

FmtPhysical == {[artifactLocation |-> [uri |-> u], region |-> r] : u \in FmtUris, r \in FmtRegions}

FmtLocations ==
    {l @@ p : l \in Opt("logicalLocations", {<<F>>, <<NS, G>>}),
              p \in Opt("physicalLocation", FmtPhysical)}

FmtLocationLists ==
    {<<x>> : x \in FmtLocations}
        \cup {<<[physicalLocation |-> p], [logicalLocations |-> <<G>>]>> : p \in FmtPhysical}

FmtRefs ==
    {Cwe("120"),
     [toolComponent |-> [name |-> "owasp"], id |-> "A1"],
     [id |-> "77"],
     [toolComponent |-> [name |-> "cwe"]]}

FmtFlows ==
    {NoKey,
     Flow(<<Step([physicalLocation |->
                    [artifactLocation |-> [uri |-> <<"foo.c">>],
                     region |-> [startLine |-> 9]]], "e1")>>)}

FmtResults ==
    {l @@ v @@ m @@ t @@ r @@ c :
        l \in Opt("locations", FmtLocationLists),
        v \in Opt("level", {"error"}),
        m \in {[message |-> Text("m")], [message |-> NoKey]},
        t \in Opt("taxa", SeqsUpTo(FmtRefs, MaxTaxa)),
        r \in Opt("ruleId", {"null-deref"}),
        c \in FmtFlows}

FmtBases == {<<"out">>, <<".">>}

FmtJobs ==
    {<<[sarif_file |-> <<r>>, base_path |-> b, dst_file |-> "stdout"]>> :
        r \in FmtResults, b \in FmtBases}

InitFmt == InitWith(FmtJobs)

SpecFmt == InitFmt /\ [][Next]_vars

(***************************************************************************)
(* SpecStep: main renders one document of one result whose code flow has   *)
(* up to MaxSteps steps.                                                   *)
(***************************************************************************)
MaxSteps == 3

StepPhysical ==
    [artifactLocation |-> [uri |-> <<"bar.c">>], region |-> [startLine |-> 10]]

StepLocations ==
    {l @@ p @@ m : l \in Opt("logicalLocations", {<<F>>, <<G>>, <<NS>>}),
                   p \in Opt("physicalLocation", {StepPhysical}),
                   m \in {[message |-> Text("e1")], [message |-> Text("e2")]}}
        \cup {[logicalLocations |-> <<G>>, message |-> NoKey]}

StepSteps == {[location |-> x] : x \in StepLocations}

StepFlows ==
    {Flow(steps) : steps \in SeqsUpTo(StepSteps, MaxSteps)}
        \cup {[codeFlows |-> <<>>],
              [codeFlows |-> <<[threadFlows |-> <<>>]>>],
              [codeFlows |->
                  <<[threadFlows |->
                        <<[locations |-> <<Step([logicalLocations |-> <<F>>], "e1")>>],
                          [locations |-> <<Step([logicalLocations |-> <<G>>], "e2")>>]>>],
                    [threadFlows |->
                        <<[locations |-> <<Step([logicalLocations |-> <<G>>], "e2")>>]>>]>>]}

StepResults ==
    {l @@ c @@ [level |-> "note", message |-> Text("m"), taxa |-> <<Cwe("120")>>] :
        l \in Opt("locations", {<<[logicalLocations |-> <<F>>]>>}), c \in StepFlows}

StepJobs ==
    {<<[sarif_file |-> <<r>>, base_path |-> <<"out">>, dst_file |-> "stdout"]>> :
        r \in StepResults}

InitStep == InitWith(StepJobs)

SpecStep == InitStep /\ [][Next]_vars

(***************************************************************************)
(* SpecDocs: main renders up to MaxDocs documents of one or two results,   *)
(* some of which lack message.text.                                        *)
(***************************************************************************)
MaxDocs == 2

DocsPhysical ==
    [artifactLocation |-> [uri |-> <<"foo.c">>],
     region |-> [startLine |-> 42, startColumn |-> 5]]

DocsResults ==
    {[locations |-> <<[logicalLocations |-> <<F>>, physicalLocation |-> DocsPhysical]>>,
      level |-> "error", message |-> Text("m"), taxa |-> <<Cwe("120")>>, ruleId |-> "r"],
     [locations |-> <<[logicalLocations |-> <<F>>, physicalLocation |-> DocsPhysical]>>,
      level |-> "error", message |-> NoKey, ruleId |-> "r"],
     [locations |-> <<[logicalLocations |-> <<G>>]>>, message |-> Text("m"),
      codeFlows |-> Flow(<<Step([logicalLocations |-> <<F>>], "e1")>>).codeFlows],
     [locations |-> <<[logicalLocations |-> <<NS>>]>>, message |-> Text("n")],
     [ruleId |-> "r"]}

DocsDocuments ==
    {<<a>> : a \in DocsResults} \cup {<<a, b>> : a \in DocsResults, b \in DocsResults}

DocsJobs ==
    {[i \in DOMAIN ds |->
         [sarif_file |-> ds[i], base_path |-> <<"out">>, dst_file |-> "stdout"]] :
        ds \in SeqsUpTo(DocsDocuments, MaxDocs)}

InitDocs == InitWith(DocsJobs)

SpecDocs == InitDocs /\ [][Next]_vars

(***************************************************************************)
(* SpecTwice: one document of up to MaxTwice results is rendered twice, by *)
(* two dumpers constructed one after the other with the same base path,    *)
(* each writing to a sink of its own.                                      *)
(***************************************************************************)
MaxTwice == 2

TwiceResults ==
    {l @@ c @@ [level |-> "warning", message |-> Text("m"), taxa |-> <<Cwe("120")>>] :
        l \in Opt("locations",
                  {<<[logicalLocations |-> <<x>>, physicalLocation |-> DocsPhysical]>> :
                      x \in {F, G, NS}}),
        c \in SeqFlows}

TwiceJobs ==
    {<<[sarif_file |-> d, base_path |-> <<"out">>, dst_file |-> "stdout"],
       [sarif_file |-> d, base_path |-> <<"out">>, dst_file |-> "buffer"]>> :
        d \in SeqsUpTo(TwiceResults, MaxTwice)}

InitTwice == InitWith(TwiceJobs)

SpecTwice == InitTwice /\ [][Next]_vars

(***************************************************************************)
(* What the checked statements speak of                                    *)
(***************************************************************************)
Range(s) == {s[i] : i \in DOMAIN s}

StartsWith(s, p) == Len(p) <= Len(s) /\ SubSeq(s, 1, Len(p)) = p

From(s, n) == SubSeq(s, n + 1, Len(s))

\* the text the sink of the current dumper holds, and what a step adds to it
Sink == out[dumper.dst_file]

Appended == From(out'[dumper.dst_file], Len(out[dumper.dst_file]))

HasLogical(location) ==
    Has(location, "logicalLocations") /\ location.logicalLocations # <<>>

FirstLogical(location) == location.logicalLocations[1]

HasFirstLogical(r) ==
    Has(r, "locations") /\ r.locations # <<>> /\ HasLogical(r.locations[1])

ResultLogical(r) == FirstLogical(r.locations[1])

\* the next step renders a location (a result's first, or a trace step's)
AtLocation ==
    \/ pc = "locations" /\ Has(result, "locations") /\ result.locations # <<>>
    \/ pc = "steps" /\ si < Len(Steps(result)) /\ Has(Steps(result)[si + 1], "location")

CurLocation ==
    IF pc = "locations" THEN result.locations[1] ELSE Steps(result)[si + 1].location

\* the locations rendered so far by the current dumper, in traversal order
ResultLocs(r) == IF Has(r, "locations") THEN <<r.locations[1]>> ELSE <<>>

StepLocs(r, n) == [i \in 1..n |-> Steps(r)[i].location]

AllLocs(r) ==
    ResultLocs(r) \o (IF Has(r, "codeFlows") THEN StepLocs(r, Len(Steps(r))) ELSE <<>>)

RECURSIVE LocsOfResults(_, _)
LocsOfResults(rs, n) ==
    IF n = 0 THEN <<>> ELSE LocsOfResults(rs, n - 1) \o AllLocs(rs[n])

Rendered ==
    IF ri = 0 THEN <<>>
    ELSE LocsOfResults(sarif_file, ri - 1)
            \o (CASE pc = "locations" -> <<>>
                  [] pc \in {"level", "message", "taxa", "ruleId", "codeFlows"} ->
                        ResultLocs(result)
                  [] pc = "steps" -> ResultLocs(result) \o StepLocs(result, si)
                  [] OTHER -> AllLocs(result))

RECURSIVE LastLogical(_)
LastLogical(locs) ==
    IF locs = <<>> THEN None
    ELSE IF HasLogical(locs[Len(locs)]) THEN FirstLogical(locs[Len(locs)])
    ELSE LastLogical(SubSeq(locs, 1, Len(locs) - 1))

\* C9: while a document is rendered, last_logical_location is unset if no
\* location rendered so far had a non-empty logicalLocations, and otherwise is
\* the first logical location of the latest rendered location (of a result or
\* of a trace step) that had one; locations without one leave it as it is.
C9_LastLogicalLocation ==
    (dumper # None /\ pc # "raised") =>
        dumper.last_logical_location = LastLogical(Rendered)

\* a trace step set it to G, and the next result's location, whose
\* logicalLocations is empty, left it there
C9_Witness ==
    /\ ri = 2 /\ pc = "level"
    /\ Has(sarif_file[1], "codeFlows")
    /\ LastLogical(AllLocs(sarif_file[1])) = G
    /\ HasFirstLogical(sarif_file[1]) /\ ResultLogical(sarif_file[1]) = F
    /\ Has(result, "locations") /\ ~HasLogical(result.locations[1])
    /\ dumper.last_logical_location = G

\* C10: rendering a location whose first logical location is ll writes the line
\* "In function '<name>':" exactly when ll differs from last_logical_location
\* and is of kind "function", and writes it before anything else of the result
\* or step; a differing ll of another kind writes no header and raises nothing,
\* but becomes last_logical_location.
C10_HeaderExactlyWhenNewFunction ==
    [][(AtLocation /\ HasLogical(CurLocation)) =>
        LET ll   == FirstLogical(CurLocation)
            last == dumper.last_logical_location
        IN  /\ (ll # last /\ ll.kind = "function") =>
                    /\ StartsWith(Appended, Header(ll))
                    /\ pc = "locations" => Len(Sink) = rmark
            /\ ~(ll # last /\ ll.kind = "function") =>
                    "In function '" \notin Range(Appended)
            /\ (ll # last /\ ll.kind # "function") =>
                    /\ dumper'.last_logical_location = ll
                    /\ ~Has(CurLocation, "physicalLocation") => pc' # "raised"
            /\ ll = last => dumper'.last_logical_location = last
      ]_vars

\* F, then the namespace NS, then a trace step in F again: F's header is
\* written a second time
C10_Witness ==
    /\ ri = 2 /\ pc = "steps" /\ si = 2
    /\ HasFirstLogical(sarif_file[1]) /\ ResultLogical(sarif_file[1]) = F
    /\ ~Has(sarif_file[1], "codeFlows")
    /\ HasFirstLogical(result) /\ ResultLogical(result) = NS
    /\ HasLogical(Steps(result)[2].location)
    /\ FirstLogical(Steps(result)[2].location) = F
    /\ Header(F) = SubSeq(Sink, 1, 4)
    /\ \E n \in fmark..Len(Sink) : StartsWith(From(Sink, n), Header(F))

\* no trace step of r names another logical location than r's first location
StepsStay(r) ==
    Has(r, "codeFlows") =>
        \A i \in 1..Len(Steps(r)) :
            HasLogical(Steps(r)[i].location) =>
                FirstLogical(Steps(r)[i].location) = ResultLogical(r)

EndsWith(s, p) == Len(p) <= Len(s) /\ From(s, Len(s) - Len(p)) = p

HasPhysical(r) ==
    Has(r, "locations") /\ r.locations # <<>> /\ Has(r.locations[1], "physicalLocation")

ExpHeaders(r) ==
    {<<>>} \cup (IF HasFirstLogical(r) /\ ResultLogical(r).kind = "function"
                 THEN {Header(ResultLogical(r))} ELSE {})

ExpPosition(physicalLocation, base_path) ==
    PathStr(base_path, physicalLocation.artifactLocation.uri)
        \o <<":">> \o IntStr(physicalLocation.region.startLine) \o <<":">>
        \o (IF Has(physicalLocation.region, "startColumn")
            THEN IntStr(physicalLocation.region.startColumn) \o <<":">> ELSE <<>>)
        \o <<" ">>

ExpPrefix(r, base_path) ==
    IF HasPhysical(r) THEN ExpPosition(r.locations[1].physicalLocation, base_path)
    ELSE <<>>

ExpLevel(r) == IF Has(r, "level") THEN <<r.level, ": ">> ELSE <<>>

IsCwe(rdr) ==
    /\ Has(rdr, "toolComponent")
    /\ Has(rdr.toolComponent, "name")
    /\ rdr.toolComponent.name = "cwe"

RECURSIVE ExpTaxa(_, _)
ExpTaxa(r, n) ==
    IF ~Has(r, "taxa") \/ n = 0 THEN <<>>
    ELSE ExpTaxa(r, n - 1)
            \o (IF IsCwe(r.taxa[n]) THEN <<" [CWE-", r.taxa[n].id, "]">> ELSE <<>>)

ExpRule(r) == IF Has(r, "ruleId") THEN <<" [", r.ruleId, "]">> ELSE <<>>

ExpLine(r, base_path) ==
    ExpPrefix(r, base_path) \o ExpLevel(r) \o <<r.message.text>>
        \o ExpTaxa(r, IF Has(r, "taxa") THEN Len(r.taxa) ELSE 0) \o ExpRule(r) \o <<"\n">>

\* C3: a result's parts are written in the order location prefix, "<level>: ",
\* message text, taxa annotations in taxa order, " [<ruleId>]", newline, the
\* absent ones skipped; the code flow block begins only after that newline.
C3_FixedOrder ==
    (ri >= 1 /\ pc # "raised") =>
        \E h \in ExpHeaders(result) :
            LET seg  == From(Sink, rmark)
                base == jobs[di].base_path
                loc  == h \o ExpPrefix(result, base)
            IN  CASE pc = "locations" -> seg = <<>>
                  [] pc = "level"     -> seg = loc
                  [] pc = "message"   -> seg = loc \o ExpLevel(result)
                  [] pc = "taxa"      ->
                        seg = loc \o ExpLevel(result) \o <<result.message.text>>
                                \o ExpTaxa(result, ti)
                  [] pc = "ruleId"    ->
                        seg = loc \o ExpLevel(result) \o <<result.message.text>>
                                \o ExpTaxa(result,
                                           IF Has(result, "taxa")
                                           THEN Len(result.taxa) ELSE 0)
                  [] pc = "codeFlows" -> seg = h \o ExpLine(result, base)
                  [] OTHER ->
                        /\ StartsWith(seg, h \o ExpLine(result, base))
                        /\ fmark = rmark + Len(h \o ExpLine(result, base))

\* every part is present, and the first trace step has been written after the line
C3_Witness ==
    /\ pc = "steps" /\ si = 1
    /\ From(Sink, rmark) =
            Header(F)
            \o <<"out", "/", "foo.c", ":", "4", "2", ":", "5", ":", " ", "error", ": ", "m",
                 " [CWE-", "120", "]", " [", "null-deref", "]", "\n">>
            \o <<"out", "/", "foo.c", ":", "9", ":", " ", "(", "1", ") ", "e1", "\n">>

\* C4: the main line of a result whose first location has a physicalLocation
\* begins with join(base_path, uri), ":<startLine>:", "<startColumn>:" if and
\* only if startColumn is present, and one space; the level and message text
\* follow on the same line.
C4_PhysicalPrefix ==
    (ri >= 1 /\ HasPhysical(result) /\ pc \notin {"locations", "raised"}) =>
        LET pl     == result.locations[1].physicalLocation
            path   == PathStr(jobs[di].base_path, pl.artifactLocation.uri)
            column == IF Has(pl.region, "startColumn")
                      THEN IntStr(pl.region.startColumn) \o <<":">> ELSE <<>>
            prefix == path \o <<":">> \o IntStr(pl.region.startLine) \o <<":">>
                        \o column \o <<" ">>
            seg    == From(Sink, rmark)
            line   == IF StartsWith(seg, <<"In function '">>) THEN From(seg, 4) ELSE seg
        IN  /\ StartsWith(line, prefix)
            /\ "\n" \notin Range(prefix)
            /\ pc = "level" => line = prefix
            /\ pc = "message" => line = prefix \o ExpLevel(result)
            /\ pc \notin {"level", "message"} =>
                    StartsWith(line, prefix \o ExpLevel(result) \o <<result.message.text>>)

\* foo.c, line 42, column 5, under the directory out
C4_Witness ==
    /\ pc = "codeFlows"
    /\ HasPhysical(result)
    /\ From(Sink, rmark) =
            <<"out", "/", "foo.c", ":", "4", "2", ":", "5", ":", " ", "error", ": ", "m",
              " [", "null-deref", "]", "\n">>

\* C8: a taxonomy reference writes " [CWE-<id>]" if and only if it has a
\* toolComponent whose name is "cwe"; one with another tool component name, or
\* with no toolComponent, writes nothing and raises nothing.
C8_CweOnly ==
    [][(pc = "taxa" /\ Has(result, "taxa") /\ ti < Len(result.taxa)) =>
        LET rdr == result.taxa[ti + 1]
        IN  /\ (IsCwe(rdr) /\ Has(rdr, "id")) =>
                    /\ Appended = <<" [CWE-", rdr.id, "]">>
                    /\ pc' = "taxa"
            /\ Appended # <<>> => IsCwe(rdr)
            /\ ~IsCwe(rdr) => (Appended = <<>> /\ pc' = "taxa")
      ]_vars

\* an OWASP reference, which wrote nothing, then CWE 120
C8_Witness ==
    /\ pc = "taxa" /\ ti = 2
    /\ ~IsCwe(result.taxa[1]) /\ Has(result.taxa[1], "toolComponent")
    /\ IsCwe(result.taxa[2])
    /\ EndsWith(Sink, <<result.message.text, " [CWE-", "120", "]">>)

(***************************************************************************)
(* The code flow block                                                     *)
(***************************************************************************)
Count(s, a) == Cardinality({i \in DOMAIN s : s[i] = a})

\* the lines of a text that ends with a newline, each without its newline
RECURSIVE Lines(_, _)
Lines(s, line) ==
    IF s = <<>> THEN <<>>
    ELSE IF s[1] = "\n" THEN <<line>> \o Lines(Tail(s), <<>>)
    ELSE Lines(Tail(s), Append(line, s[1]))

StepPrefix(location, base_path) ==
    IF Has(location, "physicalLocation")
    THEN ExpPosition(location.physicalLocation, base_path) ELSE <<>>

StepLine(r, i, base_path) ==
    StepPrefix(Steps(r)[i].location, base_path)
        \o <<"(">> \o IntStr(i) \o <<") ", Steps(r)[i].location.message.text>>

\* the header a step writes: its function, when that is not the logical
\* location rendered last before it
StepHeader(r, i, before) ==
    LET location == Steps(r)[i].location
        last     == LastLogical(before \o ResultLocs(r) \o StepLocs(r, i - 1))
    IN  IF HasLogical(location) /\ FirstLogical(location) # last
            /\ FirstLogical(location).kind = "function"
        THEN Header(FirstLogical(location)) ELSE <<>>

RECURSIVE ExpBlock(_, _, _, _)
ExpBlock(r, n, before, base_path) ==
    IF n = 0 THEN <<>>
    ELSE ExpBlock(r, n - 1, before, base_path)
            \o StepHeader(r, n, before) \o StepLine(r, n, base_path) \o <<"\n">>

\* C2 as stated: a code flow of N steps adds exactly N lines after the result's
\* main line, the i-th being the step's location prefix, "(i) " and the step's
\* own message text.
C2_Original ==
    (pc = "results" /\ ri >= 1 /\ Has(result, "codeFlows")) =>
        LET block == Lines(From(Sink, fmark), <<>>)
        IN  /\ Len(block) = Len(Steps(result))
            /\ \A i \in 1..Len(Steps(result)) :
                    i <= Len(block) => block[i] = StepLine(result, i, jobs[di].base_path)

\* C2, amended: a code flow of N steps adds after the main line, for each step
\* in the stored order, the line of the step (location prefix, "(i) ", the
\* step's own message text), preceded by a line "In function '<name>':" exactly
\* when the step's first logical location is a function other than
\* last_logical_location; nothing else is added.
C2_StepLines ==
    (ri >= 1 /\ pc \in {"steps", "results"} /\ Has(result, "codeFlows")) =>
        From(Sink, fmark) =
            ExpBlock(result, IF pc = "steps" THEN si ELSE Len(Steps(result)),
                     LocsOfResults(sarif_file, ri - 1), jobs[di].base_path)

\* three steps, two of which enter another function: five lines are added
C2_Witness ==
    /\ pc = "results" /\ ri = 1
    /\ Has(result, "codeFlows")
    /\ Len(Steps(result)) = 3
    /\ Steps(result)[1].location.message.text # Steps(result)[2].location.message.text
    /\ Count(From(Sink, fmark), "\n") = 5
    /\ Count(From(Sink, fmark), "(") = 3

(***************************************************************************)
(* The whole output of results and documents                               *)
(***************************************************************************)
ExpResultHeader(r, before) ==
    IF HasFirstLogical(r) /\ ResultLogical(r) # LastLogical(before)
        /\ ResultLogical(r).kind = "function"
    THEN Header(ResultLogical(r)) ELSE <<>>

ExpResult(r, before, base_path) ==
    ExpResultHeader(r, before) \o ExpLine(r, base_path)
        \o (IF Has(r, "codeFlows")
            THEN ExpBlock(r, Len(Steps(r)), before, base_path) ELSE <<>>)

RECURSIVE ExpResults(_, _, _)
ExpResults(rs, n, base_path) ==
    IF n = 0 THEN <<>>
    ELSE ExpResults(rs, n - 1, base_path)
            \o ExpResult(rs[n], LocsOfResults(rs, n - 1), base_path)

RECURSIVE ExpDocuments(_)
ExpDocuments(n) ==
    IF n = 0 THEN <<>>
    ELSE ExpDocuments(n - 1)
            \o ExpResults(jobs[n].sarif_file, Len(jobs[n].sarif_file), jobs[n].base_path)

LacksText(r) == ~(Has(r, "message") /\ Has(r.message, "text"))

\* C5: each document main renders starts with last_logical_location unset, and
\* the first function-kind logical location rendered in a document writes its
\* header, whatever the previous document's last logical location was.
C5_FreshDumperPerDocument ==
    [][/\ (pc = "main" /\ pc' = "results") =>
              dumper'.last_logical_location = None
       /\ (/\ AtLocation /\ HasLogical(CurLocation)
           /\ FirstLogical(CurLocation).kind = "function"
           /\ \A i \in DOMAIN Rendered :
                  HasLogical(Rendered[i]) => FirstLogical(Rendered[i]).kind # "function")
              => StartsWith(Appended, Header(FirstLogical(CurLocation)))
      ]_vars

\* the first document ended in F, the second begins in F: the header is there
C5_Witness ==
    /\ di = 2 /\ ri = 1 /\ pc = "level"
    /\ LastLogical(LocsOfResults(jobs[1].sarif_file, Len(jobs[1].sarif_file))) = F
    /\ HasFirstLogical(result) /\ ResultLogical(result) = F
    /\ rmark > 0
    /\ StartsWith(From(Sink, rmark), Header(F))

\* C7: a result without message.text ends the run with an unrecovered error:
\* the earlier results are rendered in full, what the result wrote before the
\* message (header line, position prefix, "<level>: ") stays as an unterminated
\* line, and nothing of the result's other parts, of a later result or of a
\* later document is written.
C7_MissingMessageText ==
    di >= 1 =>
        /\ \A d \in 1..(di - 1) :
              \A j \in 1..Len(jobs[d].sarif_file) : ~LacksText(jobs[d].sarif_file[j])
        /\ \A j \in 1..(ri - 1) : ~LacksText(sarif_file[j])
        /\ (ri >= 1 /\ LacksText(result)) =>
              pc \in {"locations", "level", "message", "raised"}
        /\ (pc = "raised" /\ raised_at = "message") =>
              LET before  == LocsOfResults(sarif_file, ri - 1)
                  base    == jobs[di].base_path
                  partial == ExpPrefix(result, base) \o ExpLevel(result)
              IN  /\ LacksText(result)
                  /\ SubSeq(Sink, 1, rmark) =
                        ExpDocuments(di - 1) \o ExpResults(sarif_file, ri - 1, base)
                  /\ From(Sink, rmark) = ExpResultHeader(result, before) \o partial
                  /\ partial # <<>> => Sink[Len(Sink)] # "\n"
                  /\ ~ENABLED Next

\* the second result of the first of two documents lacks the text: its
\* position and level end the output
C7_Witness ==
    /\ pc = "raised" /\ raised_at = "message"
    /\ di = 1 /\ Len(jobs) = 2 /\ ri = 2
    /\ rmark > 0
    /\ EndsWith(Sink, <<"out", "/", "foo.c", ":", "4", "2", ":", "5", ":", " ", "error", ": ">>)

\* C6: two dumpers constructed independently, with the same base path and
\* sinks of their own, write the same text for the same document.
C6_SameOutputTwice ==
    /\ di <= 1 => out["buffer"] = <<>>
    /\ di = 2 => StartsWith(out["stdout"], out["buffer"])
    /\ pc = "exit" => out["stdout"] = out["buffer"]

\* a document that begins and ends in F: both sinks begin with F's header
C6_Witness ==
    /\ pc = "exit"
    /\ Len(jobs[1].sarif_file) = 2
    /\ HasFirstLogical(jobs[1].sarif_file[1])
    /\ ResultLogical(jobs[1].sarif_file[1]) = F
    /\ LastLogical(LocsOfResults(jobs[1].sarif_file, 2)) = F
    /\ StartsWith(out["buffer"], Header(F))
    /\ out["stdout"] = out["buffer"]

====
